---- MODULE Spec2Model ----
(***************************************************************************)
(* A model of script.js (GitHubFollower): the credential gate              *)
(* (validateToken), the prompts, the pagination loop of run, one follow    *)
(* request per identity (followUser, parse403Error, handle403Error), the   *)
(* fixed pause after every identity, and the token bucket that followUser  *)
(* asks for a permit.                                                      *)
(*                                                                         *)
(* Times are in milliseconds. The run is one sequential async function;    *)
(* pc is the await it is suspended at.                                     *)
(***************************************************************************)
EXTENDS Integers, Sequences, FiniteSets, TLC

\* ------------------------------------------------------------------ bounds

\* Pages 1..MaxPage of the collection may hold identities; later pages are empty.
MaxPage == 2

\* The largest number of identities a page holds (per_page is 100 in the code).
MaxPageLen == 2

\* The account handles that occur on pages.
Identities == {"alice", "bob"}

\* Network latency of one stargazers request (ms): none, or a quarter second.
Latencies == {0, 250}

\* reset - now of a rate-limited response (ms): already past, close, a minute away.
RetryAfters == {-2000, 3000, 60000}

\* ------------------------------------------------------------------ state

VARIABLES
    pc,            \* the await run() is at: validate, prompt, fetch, follow,
                   \* awaitFollow, pause; or a terminal state: done, exit1
    userResp,      \* the answer to GET /user (NoResp before it arrives)
    page,          \* run: let page
    remote,        \* what the server holds for the page last requested
    fetchStatus,   \* the last stargazers request: none, ok, failed
    users,         \* run: const users (what getStargazers returned)
    idx,           \* position of the for..of loop in users (1-based)
    resp,          \* the answer to the last PUT /user/following (NoResp before)
    success,       \* run: const success (what followUser returned)
    backoffTimer,  \* duration of the timer handle403Error started last (0: none)
    elapsed,       \* ms since the last follow response arrived
    slept,         \* ms run() has slept in setTimeout since the last follow response
    followReqs,    \* follow requests issued
    permits,       \* limiter permits granted to followUser
    processed,     \* identity occurrences the for..of loop has taken
    pageReqs,      \* stargazers page requests issued
    inFlight,      \* follow requests awaiting their response
    issued,        \* identities requested on the current page, in order
    available,     \* token bucket: content, in ms of refill time
    lpc,           \* token bucket: its caller is idle or waiting for a refill
    lastGrant      \* token bucket: content just before and after the last grant

runVars == <<pc, userResp, page, remote, fetchStatus, users, idx, resp, success,
             backoffTimer, elapsed, slept, followReqs, permits, processed,
             pageReqs, inFlight, issued>>

limiterVars == <<available, lpc, lastGrant>>

vars == <<pc, userResp, page, remote, fetchStatus, users, idx, resp, success,
          backoffTimer, elapsed, slept, followReqs, permits, processed,
          pageReqs, inFlight, issued, available, lpc, lastGrant>>

NoResp == [kind |-> "none"]

\* ------------------------------------------------------------------ inputs

\* Sequences over S of length 0..n.
SeqsUpTo(S, n) == UNION {[1..k -> S] : k \in 0..n}

\* The x-oauth-scopes header: absent, or scope names joined by ", " (kept as the
\* list of names that split(', ') yields).
ScopeHeaders ==
    {<<>>, <<"user:follow">>, <<"user">>, <<"repo">>, <<"repo", "user:follow">>,
     <<"repo", "user">>}

\* Answers to GET /user: a thrown network error, or a response with a status.
UserResponses ==
    {[kind |-> "error", status |-> 0, hasScopes |-> FALSE, scopes |-> <<>>]}
    \cup [kind : {"response"}, status : {200, 401}, hasScopes : {TRUE},
          scopes : ScopeHeaders]
    \cup [kind : {"response"}, status : {200, 401}, hasScopes : {FALSE},
          scopes : {<<>>}]

\* Answers to the "Start page: " prompt.
Digits == <<"1", "2", "3", "4", "5", "6", "7", "8", "9">>
StartPageAnswers == {""} \cup {Digits[n] : n \in 1..MaxPage}

\* The body of a stargazers page: user objects.
PageBodies == SeqsUpTo([login : Identities], MaxPageLen)

\* response.data.message of a 403.
Messages == {"Resource not accessible by integration",
             "You have been blocked from following", "undefined"}

\* Answers to PUT /user/following/{username}: a thrown network error, or a
\* response. Headers that only a 403 is read for are fixed on the others.
FollowResponses ==
    {[kind |-> "error", status |-> 0, remaining |-> "undefined",
      message |-> "undefined", retryAfter |-> 0]}
    \cup [kind : {"response"}, status : {204, 404}, remaining : {"57"},
          message : {"undefined"}, retryAfter : {0}]
    \cup [kind : {"response"}, status : {403}, remaining : {"57", "undefined"},
          message : Messages, retryAfter : {0}]
    \cup [kind : {"response"}, status : {403}, remaining : {"0"},
          message : Messages, retryAfter : RetryAfters]

\* ------------------------------------------------------------------ helpers

\* validateToken: response.headers['x-oauth-scopes']?.split(', ') || []
ParseScopes(r) == IF r.hasScopes THEN r.scopes ELSE <<>>

\* Array.prototype.includes: some element equals x.
Includes(s, x) == \E i \in 1..Len(s) : s[i] = x

\* validateToken: the scope the code looks for.
RequiredScope == "user"

\* validateToken returns (rather than exits) on these answers.
TokenValid(r) ==
    /\ r.kind = "response"
    /\ r.status = 200
    /\ Includes(ParseScopes(r), RequiredScope)

\* run: parseInt(answer || 1)
ParseStartPage(answer) ==
    IF answer = "" THEN 1 ELSE CHOOSE n \in 1..Len(Digits) : Digits[n] = answer

\* getStargazers: response.data.map(user => user.login)
Logins(body) == [i \in 1..Len(body) |-> body[i].login]

\* A variant of GetStargazersResult: the page request never counts as failed
\* (validateStatus: () => true, as on the other two requests).
GetStargazersResult_IgnoreFailure(ok, body) == Logins(body)

\* getStargazers: the logins of the page, or [] when the request failed.
GetStargazersResult(ok, body) == IF ok THEN Logins(body) ELSE <<>>

\* A variant of PageEmpty: the loop has no break.
PageEmpty_Never(us) == FALSE

\* run: if (users.length === 0) break
PageEmpty(us) == Len(us) = 0

\* A variant of NextPage: the loop has no page++.
NextPage_Stay(p) == p

\* run: page++
NextPage(p) == p + 1

\* A variant of NextIdx: an identity is retried until its follow succeeds.
NextIdx_RetryFailed(i, ok) == IF ok THEN i + 1 ELSE i

\* run: the for..of loop takes the next element whatever followUser returned.
NextIdx(i, ok) == i + 1

\* followUser: if (response.status === 204) return true
IsSuccessStatus(status) == status = 204

\* handle403Error: error.rateLimit.remaining === '0'
IsRateLimited(r) == r.kind = "response" /\ r.status = 403 /\ r.remaining = "0"

\* handle403Error: error.message.includes('integration')
MessageIncludesIntegration(m) == m = "Resource not accessible by integration"

\* A variant of IsFatal403: the permission branch logs and returns.
IsFatal403_NoExit(r) == FALSE

\* A variant of IsFatal403: every 403 with quota left exits.
IsFatal403_AnyDenial(r) ==
    r.kind = "response" /\ r.status = 403 /\ ~IsRateLimited(r)

\* handle403Error reaches process.exit(1): only past the rate-limit return. With
\* no message in the body, includes throws a TypeError that followUser catches.
IsFatal403(r) ==
    /\ r.kind = "response"
    /\ r.status = 403
    /\ ~IsRateLimited(r)
    /\ r.message # "undefined"
    /\ MessageIncludesIntegration(r.message)

\* followUser's return value.
FollowResult(r) == r.kind = "response" /\ IsSuccessStatus(r.status)

\* handle403Error: waitTime = reset - Date.now() + 1000
SafetyMarginMs == 1000
WaitTime(retryAfter) == retryAfter + SafetyMarginMs

\* setTimeout runs a delay below 1 ms as 1 ms.
TimerDelay(ms) == IF ms < 1 THEN 1 ELSE ms

\* followUser line 95 calls handle403Error without await: the time followUser
\* waits for the promise it returns.
AwaitedBackoff(r) == 0

\* run: setTimeout(resolve, success ? 1500 : 5000)
ShortPauseMs == 1500
LongPauseMs == 5000

\* A variant of PauseMs: the short pause after every outcome.
PauseMs_AlwaysShort(ok) == ShortPauseMs

\* run: the pause after one identity.
PauseMs(ok) == IF ok THEN ShortPauseMs ELSE LongPauseMs

\* The most follow requests a run over the bounded collection can issue.
MaxReqs == MaxPage * MaxPageLen

\* ------------------------------------------------------------------ token bucket

\* constructor: tokensPerInterval: 5000
Capacity == 5000

\* constructor: interval: 'hour'
IntervalMs == 3600000

\* followUser: removeTokens(1)
TokensPerCall == 1

\* The refill time of one token: the bucket refills fully once per interval.
MsPerToken == IntervalMs \div Capacity

\* The bucket's content is kept in ms of refill time, so that the lazy refill
\* available + elapsedSeconds * refillRatePerSecond is exact on integers.
Full == Capacity * MsPerToken
Cost == TokensPerCall * MsPerToken

\* Ms between two looks at the bucket: none, half a token, a whole interval.
ElapsedChoices == {0, MsPerToken \div 2, IntervalMs}

Min(a, b) == IF a < b THEN a ELSE b

\* A variant of Refill: the refill is not capped.
Refill_Uncapped(a, dt) == a + dt

\* acquire: available = min(capacity, available + elapsed * refillRate)
Refill(a, dt) == Min(Full, a + dt)

\* acquire: a permit is granted when the refilled content covers it.
CanGrant(a) == a >= Cost

\* acquire: the content after a grant.
Take(a) == a - Cost

\* ------------------------------------------------------------------ initial state

Init ==
    /\ pc = "validate"
    /\ userResp = NoResp
    /\ page = 0
    /\ remote = <<>>
    /\ fetchStatus = "none"
    /\ users = <<>>
    /\ idx = 0
    /\ resp = NoResp
    /\ success = FALSE
    /\ backoffTimer = 0
    /\ elapsed = 0
    /\ slept = 0
    /\ followReqs = 0
    /\ permits = 0
    /\ processed = 0
    /\ pageReqs = 0
    /\ inFlight = 0
    /\ issued = <<>>
    /\ available = Full
    /\ lpc = "idle"
    /\ lastGrant = [before |-> Full, after |-> Full, granted |-> FALSE]

\* ------------------------------------------------------------------ run

\* validateToken: GET /user, then return or process.exit(1).
ValidateToken ==
    /\ pc = "validate"
    /\ \E r \in UserResponses :
        /\ userResp' = r
        /\ pc' = IF TokenValid(r) THEN "prompt" ELSE "exit1"
    /\ UNCHANGED <<page, remote, fetchStatus, users, idx, resp, success,
                   backoffTimer, elapsed, slept, followReqs, permits, processed,
                   pageReqs, inFlight, issued>>
    /\ UNCHANGED limiterVars

\* run: the two prompts; let page = startPage.
Prompt ==
    /\ pc = "prompt"
    /\ \E a \in StartPageAnswers : page' = ParseStartPage(a)
    /\ pc' = "fetch"
    /\ UNCHANGED <<userResp, remote, fetchStatus, users, idx, resp, success,
                   backoffTimer, elapsed, slept, followReqs, permits, processed,
                   pageReqs, inFlight, issued>>
    /\ UNCHANGED limiterVars

\* run: const users = await this.getStargazers(owner, repo, page), the break on
\* an empty result, and the start of the for..of loop.
GetStargazers ==
    /\ pc = "fetch"
    /\ \E ok \in BOOLEAN, body \in PageBodies, lat \in Latencies :
        /\ page > MaxPage => body = <<>>
        /\ remote' = body
        /\ fetchStatus' = IF ok THEN "ok" ELSE "failed"
        /\ elapsed' = elapsed + lat
        /\ LET us == GetStargazersResult(ok, body) IN
            /\ users' = us
            /\ IF PageEmpty(us)
               THEN /\ pc' = "done"
                    /\ idx' = 0
                    /\ UNCHANGED <<page, processed>>
               ELSE IF Len(us) = 0
               THEN /\ pc' = "fetch"
                    /\ idx' = 0
                    /\ page' = NextPage(page)
                    /\ UNCHANGED processed
               ELSE /\ pc' = "follow"
                    /\ idx' = 1
                    /\ processed' = processed + 1
                    /\ UNCHANGED page
    /\ pageReqs' = pageReqs + 1
    /\ issued' = <<>>
    /\ UNCHANGED <<userResp, resp, success, backoffTimer, slept, followReqs,
                   permits, inFlight>>
    /\ UNCHANGED limiterVars

\* followUser: await this.rateLimiter.removeTokens(1), then the PUT is sent.
\* The bucket was last looked at no later than the previous follow response.
FollowRequest ==
    /\ pc = "follow"
    /\ followReqs < MaxReqs
    /\ LET a == Refill(available, elapsed) IN
        /\ CanGrant(a)
        /\ available' = Take(a)
        /\ lastGrant' = [before |-> a, after |-> Take(a), granted |-> TRUE]
    /\ UNCHANGED lpc
    /\ permits' = permits + 1
    /\ followReqs' = followReqs + 1
    /\ inFlight' = inFlight + 1
    /\ issued' = Append(issued, users[idx])
    /\ pc' = "awaitFollow"
    /\ UNCHANGED <<userResp, page, remote, fetchStatus, users, idx, resp, success,
                   backoffTimer, elapsed, slept, processed, pageReqs>>

\* followUser: the PUT's answer, its classification, handle403Error, the return.
FollowResponse ==
    /\ pc = "awaitFollow"
    /\ \E r \in FollowResponses :
        /\ resp' = r
        /\ backoffTimer' = IF IsRateLimited(r)
                           THEN TimerDelay(WaitTime(r.retryAfter))
                           ELSE 0
        /\ IF IsFatal403(r)
           THEN /\ pc' = "exit1"
                /\ elapsed' = 0
                /\ slept' = 0
                /\ UNCHANGED success
           ELSE /\ pc' = "pause"
                /\ elapsed' = AwaitedBackoff(r)
                /\ slept' = AwaitedBackoff(r)
                /\ success' = FollowResult(r)
    /\ inFlight' = inFlight - 1
    /\ UNCHANGED <<userResp, page, remote, fetchStatus, users, idx, followReqs,
                   permits, processed, pageReqs, issued>>
    /\ UNCHANGED limiterVars

\* run: await new Promise(resolve => setTimeout(resolve, success ? 1500 : 5000)),
\* then the next element of users, or page++ and the next page.
Pause ==
    /\ pc = "pause"
    /\ elapsed' = elapsed + PauseMs(success)
    /\ slept' = slept + PauseMs(success)
    /\ LET n == NextIdx(idx, success) IN
        /\ idx' = n
        /\ IF n <= Len(users)
           THEN /\ pc' = "follow"
                /\ processed' = IF n = idx THEN processed ELSE processed + 1
                /\ UNCHANGED page
           ELSE /\ pc' = "fetch"
                /\ page' = NextPage(page)
                /\ UNCHANGED processed
    /\ UNCHANGED <<userResp, remote, fetchStatus, users, resp, success,
                   backoffTimer, followReqs, permits, pageReqs, inFlight, issued>>
    /\ UNCHANGED limiterVars

Next ==
    \/ ValidateToken
    \/ Prompt
    \/ GetStargazers
    \/ FollowRequest
    \/ FollowResponse
    \/ Pause

Spec == Init /\ [][Next]_vars

\* Every outbound request and every pause eventually completes.
FairSpec == Spec /\ WF_vars(Next)

\* ------------------------------------------------------------------ limiter

\* acquire, called dt ms after the bucket was last looked at: refill, then grant
\* a permit or suspend the caller.
Acquire ==
    /\ lpc = "idle"
    /\ \E dt \in ElapsedChoices :
        LET a == Refill(available, dt) IN
        IF CanGrant(a)
        THEN /\ available' = Take(a)
             /\ lastGrant' = [before |-> a, after |-> Take(a), granted |-> TRUE]
             /\ lpc' = "idle"
        ELSE /\ available' = a
             /\ lpc' = "waiting"
             /\ UNCHANGED lastGrant
    /\ UNCHANGED runVars

\* acquire: the suspended caller looks again dt ms later.
Retry ==
    /\ lpc = "waiting"
    /\ \E dt \in ElapsedChoices :
        LET a == Refill(available, dt) IN
        IF CanGrant(a)
        THEN /\ available' = Take(a)
             /\ lastGrant' = [before |-> a, after |-> Take(a), granted |-> TRUE]
             /\ lpc' = "idle"
        ELSE /\ available' = a
             /\ lpc' = "waiting"
             /\ UNCHANGED lastGrant
    /\ UNCHANGED runVars

LimiterNext == Acquire \/ Retry

SpecLimiter == Init /\ [][LimiterNext]_vars

\* ------------------------------------------------------------------ claims

Terminal == {"done", "exit1"}

\* The last follow answer was a 403 with the remaining-quota header equal to 0.
RateLimitedAnswer == resp.kind = "response" /\ resp.status = 403 /\ resp.remaining = "0"

\* The last follow answer was a 403 with quota left whose message names the integration.
FatalAnswer ==
    /\ resp.kind = "response"
    /\ resp.status = 403
    /\ resp.remaining # "0"
    /\ MessageIncludesIntegration(resp.message)

\* The last follow answer was a 403 with quota left that denies this identity only.
DeniedAnswer ==
    /\ resp.kind = "response"
    /\ resp.status = 403
    /\ resp.remaining = "57"
    /\ ~MessageIncludesIntegration(resp.message)

\* The last follow answer was a 204.
SucceededAnswer == resp.kind = "response" /\ resp.status = 204

\* The run has moved past the pause that follows the last follow answer.
PastPause == resp # NoResp /\ pc \in {"follow", "awaitFollow", "fetch", "done"}

\* C1: after a follow request is answered 403 with remaining quota 0, the next
\* follow request is issued only once retryAfter = reset - now has elapsed since
\* that answer.
C1_BackoffDelaysNextFollow ==
    (pc = "awaitFollow" /\ RateLimitedAnswer) => elapsed >= resp.retryAfter

\* validateToken returned: the run went on to the prompts.
GatePassed == pc # "validate" /\ ~(pc = "exit1" /\ pageReqs = 0)

\* C2: the run passes validateToken exactly when GET /user answers 200 and the
\* granted scopes contain 'user:follow'; otherwise it exits with code 1 before
\* any page request or follow request.
C2_CredentialGate ==
    pc # "validate" =>
        /\ GatePassed <=> /\ userResp.kind = "response"
                          /\ userResp.status = 200
                          /\ Includes(ParseScopes(userResp), "user:follow")
        /\ ~GatePassed => pc = "exit1" /\ pageReqs = 0 /\ followReqs = 0

\* C3: once a follow request is answered with a 403 that has quota left and a
\* message containing 'integration', the run is over with exit code 1: no
\* follow request and no page request is issued afterwards.
C3_FatalDenialTerminates ==
    /\ [](FatalAnswer => pc = "exit1" /\ inFlight = 0)
    /\ [][pc = "exit1" =>
            pc' = "exit1" /\ followReqs' = followReqs /\ pageReqs' = pageReqs]_vars

C3_Witness == pc = "exit1" /\ FatalAnswer /\ page > 1 /\ idx > 1

\* C4: after a 403 with quota left that denies one identity, followUser returned
\* false, no backoff timer runs, the run has not exited, and it moves on after
\* sleeping the long pause only.
C4_PerIdentityDenialContinues ==
    DeniedAnswer =>
        /\ pc # "exit1"
        /\ success = FALSE
        /\ backoffTimer = 0
        /\ pc = "pause" => slept = 0
        /\ PastPause => slept = LongPauseMs

C4_Witness == DeniedAnswer /\ pc = "awaitFollow" /\ slept = LongPauseMs /\ idx > 1

\* C5: followUser returns true exactly when the answer is a 204, and the pause
\* taken before the next identity is 1.5 s after a 204 and 5 s after anything else.
C5_PauseChosenByOutcome ==
    /\ pc = "pause" => (success <=> SucceededAnswer)
    /\ PastPause => slept = (IF SucceededAnswer THEN ShortPauseMs ELSE LongPauseMs)

C5_Witness == SucceededAnswer /\ pc = "awaitFollow" /\ slept = ShortPauseMs

\* C6: once getStargazers has returned an empty sequence the run is complete
\* (not a fatal exit), and nothing is requested afterwards.
C6_EmptyPageEndsRun ==
    /\ []((fetchStatus # "none" /\ users = <<>>) => pc = "done")
    /\ [][pc = "done" =>
            pc' = "done" /\ followReqs' = followReqs /\ pageReqs' = pageReqs]_vars

C6_Witness ==
    pc = "done" /\ fetchStatus = "ok" /\ users = <<>> /\ pageReqs = 1 /\ followReqs = 0

\* C7: the bucket's content stays within 0..capacity; a permit is granted only
\* from a content of at least one token and lowers it by exactly one token.
C7_TokenBucketInvariant ==
    /\ 0 <= available
    /\ available <= Full
    /\ lastGrant.granted =>
        /\ lastGrant.before >= MsPerToken
        /\ lastGrant.before <= Full
        /\ lastGrant.before - lastGrant.after = MsPerToken

C7_Witness == lpc = "waiting" /\ available < MsPerToken /\ lastGrant.granted

C9_OneRequestPerIdentity ==
    /\ permits = followReqs
    /\ inFlight = (IF pc = "awaitFollow" THEN 1 ELSE 0)
    /\ followReqs = (IF pc = "follow" THEN processed - 1 ELSE processed)
    /\ Len(issued) <= Len(users)
    /\ issued = SubSeq(users, 1, Len(issued))
    /\ pc = "follow" => Len(issued) = idx - 1
    /\ pc \in {"awaitFollow", "pause"} => Len(issued) = idx
    /\ pc = "fetch" => issued = users

C9_Witness ==
    pc = "pause" /\ followReqs > 2 /\ ~success /\ RateLimitedAnswer /\ idx = 2

\* C10: a failed stargazers request gives the loop an empty page: the run ends
\* as a normal completion, the page's identities are not requested, and nothing
\* is requested afterwards.
C10_FailedFetchEndsRun ==
    /\ [](fetchStatus = "failed" => (users = <<>> /\ issued = <<>> /\ pc = "done"))
    /\ [][fetchStatus = "failed" =>
            fetchStatus' = "failed" /\ followReqs' = followReqs
            /\ pageReqs' = pageReqs]_vars

C10_Witness ==
    fetchStatus = "failed" /\ Len(remote) > 1 /\ pc = "done" /\ page > 1
    /\ followReqs > 0

====
